---- MODULE Spec2Model ----
(***************************************************************************)
(* Model of controllers/utils/utils.go: the tracked-object synchronizer    *)
(* (CreateOrPatchTrackedObjects), the resource sizer                       *)
(* (IPFSContainerResources) and the identity provisioner (randomKey,       *)
(* NewClusterSecret, NewSwarmKey, NewKey, GenerateIdentity).               *)
(*                                                                         *)
(* Conventions                                                             *)
(*   - a Go string is the sequence of its characters, "" is << >>;         *)
(*   - a Go error is its chain of messages, outermost first: nil is << >>, *)
(*     fmt.Errorf("ctx: %w", e) is <<"ctx">> \o e, errors.Unwrap is Tail;  *)
(*   - the three components share no state; each has its own specification *)
(*     (SyncSpec, SizerSpec, IdentSpec) that leaves the others idle.       *)
(***************************************************************************)
EXTENDS Integers, Sequences, FiniteSets

VARIABLES
    \* ---- CreateOrPatchTrackedObjects ----
    pc,              \* "idle" | "loop" (inside the range loop) | "done" (returned)
    trackedObjects,  \* keys of the trackedObjects map of the current call
    backend,         \* what CreateOrPatch returns for each tracked object
    remaining,       \* keys the range loop has not produced yet
    requeue,         \* the local `requeue`, and the value returned once pc = "done"
    calls,           \* objects handed to controllerutil.CreateOrPatch, in call order
    logs,            \* records emitted through log.Error / log.Info, in order
    prev,            \* trace of the previous completed call on the same batch
    \* ---- IPFSContainerResources ----
    sized,           \* the last two calls, latest first: [in |-> bytes, out |-> profile]
    \* ---- randomKey, NewClusterSecret, NewSwarmKey, NewKey, GenerateIdentity ----
    op,              \* the function called last, "none" before any call
    arg,             \* its argument (randomKey's len), 0 when it takes none
    env,             \* how the libraries it calls behave during the call
    entropy,         \* reads of crypto/rand still to come: what the call left unread
    ret              \* what the call returned

syncVars == <<pc, trackedObjects, backend, remaining, requeue, calls, logs, prev>>

sizerVars == <<sized>>

identVars == <<op, arg, env, entropy, ret>>

vars == <<syncVars, sizerVars, identVars>>

\* ---------------------------------------------------------------- bounds
MaxObjects == 3

MaxStorageTB == 17

MaxKeyLen == 3

PatLen == 2

MaxKeySeed == 2

\* ------------------------------------------------------------ shared values
Nil == << >>

\* ------------------------------------------- CreateOrPatchTrackedObjects
Objects == 1..MaxObjects

ApplyError == <<"apply failed">>

\* (result, err) pairs controllerutil.CreateOrPatch hands back.
Outcomes ==
    { [result |-> "created",   err |-> Nil],
      [result |-> "updated",   err |-> Nil],
      [result |-> "unchanged", err |-> Nil],
      [result |-> "unchanged", err |-> ApplyError] }

NoTrace == [calls |-> << >>, logs |-> << >>, requeue |-> FALSE, valid |-> FALSE]

NextRequeueReset(cur, err) == err # Nil

NextRequeueNever(cur, err) == cur

\* if err != nil { requeue = true } : the flag is only ever raised.
NextRequeue(cur, err) == IF err # Nil THEN TRUE ELSE cur

LogRecordErrorsOnly(obj, out) ==
    IF out.err # Nil
    THEN << [level |-> "error", objname |-> obj, result |-> out.result, err |-> out.err] >>
    ELSE << >>

\* log.Error(err, "error creating object", ...) or log.Info("object changed", ...)
LogRecord(obj, out) ==
    IF out.err # Nil
    THEN << [level |-> "error", objname |-> obj, result |-> out.result, err |-> out.err] >>
    ELSE << [level |-> "info",  objname |-> obj, result |-> out.result, err |-> Nil] >>

RestAfterAbortOnError(rest, obj, out) == IF out.err # Nil THEN {} ELSE rest \ {obj}

\* The range loop moves on to the next key whatever the outcome was.
RestAfter(rest, obj, out) == rest \ {obj}

SyncIdle ==
    /\ pc = "idle"
    /\ trackedObjects = {}
    /\ backend = << >>
    /\ remaining = {}
    /\ requeue = FALSE
    /\ calls = << >>
    /\ logs = << >>
    /\ prev = NoTrace

SizerIdle == sized = << >>

IdentIdle ==
    /\ op = "none"
    /\ arg = 0
    /\ env = << >>
    /\ entropy = << >>
    /\ ret = << >>

\* A caller invokes CreateOrPatchTrackedObjects(ctx, trackedObjects, client, log):
\* `var requeue bool` starts false and the range loop starts over all keys.
Call ==
    /\ pc = "idle"
    /\ \E batch \in SUBSET Objects :
         \E b \in [batch -> Outcomes] :
            /\ trackedObjects' = batch
            /\ backend' = b
            /\ remaining' = batch
    /\ pc' = "loop"
    /\ requeue' = FALSE
    /\ calls' = << >>
    /\ logs' = << >>
    /\ UNCHANGED prev
    /\ UNCHANGED <<sizerVars, identVars>>

\* One iteration of `for obj, mut := range trackedObjects`: Go produces every
\* key once, in an order the language leaves unspecified.
Apply(obj) ==
    /\ pc = "loop"
    /\ obj \in remaining
    /\ LET out == backend[obj] IN
         /\ calls' = Append(calls, obj)
         /\ logs' = logs \o LogRecord(obj, out)
         /\ requeue' = NextRequeue(requeue, out.err)
         /\ remaining' = RestAfter(remaining, obj, out)
    /\ UNCHANGED <<pc, trackedObjects, backend, prev>>
    /\ UNCHANGED <<sizerVars, identVars>>

\* `return requeue` once the range is exhausted.
Return ==
    /\ pc = "loop"
    /\ remaining = {}
    /\ pc' = "done"
    /\ UNCHANGED <<trackedObjects, backend, remaining, requeue, calls, logs, prev>>
    /\ UNCHANGED <<sizerVars, identVars>>

\* The caller invokes the function again on the same map, the backend behaving
\* as before; the finished call's trace is kept for comparison.
CallAgain ==
    /\ pc = "done"
    /\ prev' = [calls |-> calls, logs |-> logs, requeue |-> requeue, valid |-> TRUE]
    /\ pc' = "loop"
    /\ remaining' = trackedObjects
    /\ requeue' = FALSE
    /\ calls' = << >>
    /\ logs' = << >>
    /\ UNCHANGED <<trackedObjects, backend>>
    /\ UNCHANGED <<sizerVars, identVars>>

SyncInit == SyncIdle /\ SizerIdle /\ IdentIdle

SyncNext ==
    \/ Call
    \/ \E obj \in Objects : Apply(obj)
    \/ Return
    \/ CallAgain

SyncSpec == SyncInit /\ [][SyncNext]_vars

\* ------------------------------------------------- IPFSContainerResources
\* An int64 byte count is held in two limbs, hi * 2^20 + lo with 0 <= lo < 2^20,
\* so that sizes of many tebibytes stay inside TLC's 32-bit integers.
Limb == 2^20

Bytes(hi, lo) == [hi |-> hi, lo |-> lo]

\* units.Tebibyte = 2^40
Tebibyte == Bytes(Limb, 0)

BytesLess(a, b) == a.hi < b.hi \/ (a.hi = b.hi /\ a.lo < b.lo)

BytesLeq(a, b) == a = b \/ BytesLess(a, b)

\* Offsets inside one tebibyte: its first byte, its second and its last.
Offsets == { Bytes(0, 0), Bytes(0, 1), Bytes(Limb - 1, Limb - 1) }

\* The non-negative storage sizes a caller passes.
StorageInputs ==
    { Bytes(tb * Tebibyte.hi + off.hi, off.lo) : tb \in 0..MaxStorageTB, off \in Offsets }

\* resource.Giga and resource.Milli
Giga == 9

Milli == -3

\* resource.NewScaledQuantity(value, scale): the exact quantity value * 10^scale
NewScaledQuantity(value, scale) == [value |-> value, scale |-> scale]

\* ipfsStorageBytes / int64(units.Tebibyte), truncating; the low limb is below
\* 2^20 and cannot carry into the quotient.
StorageTB(ipfsStorageBytes) == ipfsStorageBytes.hi \div Tebibyte.hi

\* ipfsMilliCoresMin := 250 + (500 * ipfsStorageTB)
MilliCoresMin(ipfsStorageTB) == 250 + (500 * ipfsStorageTB)

RAMGBMinFloorTwo(ipfsStorageTB) == IF ipfsStorageTB < 2 THEN 2 ELSE ipfsStorageTB

RAMGBMinClampThree(ipfsStorageTB) == IF ipfsStorageTB < 2 THEN 3 ELSE ipfsStorageTB

\* ipfsRAMGBMin := ipfsStorageTB; if ipfsRAMGBMin < 2 { ipfsRAMGBMin = 1 }
RAMGBMin(ipfsStorageTB) == IF ipfsStorageTB < 2 THEN 1 ELSE ipfsStorageTB

IPFSContainerResources(ipfsStorageBytes) ==
    LET ipfsStorageTB == StorageTB(ipfsStorageBytes)
        ipfsMilliCoresMin == MilliCoresMin(ipfsStorageTB)
        ipfsRAMGBMin == RAMGBMin(ipfsStorageTB)
        ipfsRAMMinQuantity == NewScaledQuantity(ipfsRAMGBMin, Giga)
        ipfsRAMMaxQuantity == NewScaledQuantity(2 * ipfsRAMGBMin, Giga)
        ipfsCoresMinQuantity == NewScaledQuantity(ipfsMilliCoresMin, Milli)
        ipfsCoresMaxQuantity == NewScaledQuantity(2 * ipfsMilliCoresMin, Milli)
    IN  [ Requests |-> [memory |-> ipfsRAMMinQuantity, cpu |-> ipfsCoresMinQuantity],
          Limits   |-> [memory |-> ipfsRAMMaxQuantity, cpu |-> ipfsCoresMaxQuantity] ]

\* A caller sizes a node; the function is pure, so the state only records the
\* call and its result (the last two, for comparing results of two sizes).
SizeFor ==
    /\ \E s \in StorageInputs :
         sized' = << [in |-> s, out |-> IPFSContainerResources(s)] >>
                    \o (IF sized = << >> THEN << >> ELSE << sized[1] >>)
    /\ UNCHANGED <<syncVars, identVars>>

SizerInit == SyncIdle /\ SizerIdle /\ IdentIdle

SizerNext == SizeFor

SizerSpec == SizerInit /\ [][SizerNext]_vars

\* ----------------------------------------------------- identity provisioner
\* A byte slice: Go tells a nil slice from an empty one.
NilBuf == [nil |-> TRUE, bytes |-> << >>]

Buf(bytes) == [nil |-> FALSE, bytes |-> bytes]

ByteSamples == {0, 10, 171, 255}

\* n bytes repeating a pattern.
Fill(pattern, n) == [i \in 1..n |-> pattern[((i - 1) % Len(pattern)) + 1]]

EntropyErrors == { <<"EOF">>, <<"entropy source unavailable">> }

\* One read of crypto/rand: it fills the whole buffer, or fails.
ReadBehaviours ==
    { [err |-> Nil, pattern |-> p] : p \in [1..PatLen -> ByteSamples] }
    \cup { [err |-> e, pattern |-> <<171>>] : e \in EntropyErrors }

\* The source's next two reads: a second read by the same call would show.
EntropyStreams == [1..2 -> ReadBehaviours]

\* rand.Read(buf) on a buffer of n zero bytes, the source's next read being beh:
\* a failing read leaves the buffer partly written.
RandRead(n, beh) ==
    IF beh.err # Nil
    THEN [bytes |-> [i \in 1..n |-> IF 2 * i <= n THEN beh.pattern[1] ELSE 0],
          err |-> beh.err]
    ELSE [bytes |-> Fill(beh.pattern, n), err |-> Nil]

randomKeyRetry(len, rnd) ==
    LET r == RandRead(len, rnd[1])
        r2 == RandRead(len, rnd[2])
    IN  IF r.err = Nil THEN [buf |-> Buf(r.bytes), err |-> Nil, rnd |-> Tail(rnd)]
        ELSE IF r2.err = Nil THEN [buf |-> Buf(r2.bytes), err |-> Nil, rnd |-> Tail(Tail(rnd))]
        ELSE [buf |-> NilBuf, err |-> r2.err, rnd |-> Tail(Tail(rnd))]

\* buf = make([]byte, len); one rand.Read(buf); (nil, err) if it fails.
\* rnd is the source's pending reads; the result carries what is left of it.
randomKey(len, rnd) ==
    LET r == RandRead(len, rnd[1])
    IN  IF r.err # Nil
        THEN [buf |-> NilBuf, err |-> r.err, rnd |-> Tail(rnd)]
        ELSE [buf |-> Buf(r.bytes), err |-> Nil, rnd |-> Tail(rnd)]

\* encoding/hex: const hextable = "0123456789abcdef"
hextable == <<"0", "1", "2", "3", "4", "5", "6", "7", "8", "9", "a", "b", "c", "d", "e", "f">>

\* hex.EncodeToString: two digits per byte, high nibble first.
RECURSIVE EncodeToString(_)
EncodeToString(src) ==
    IF src = << >> THEN << >>
    ELSE << hextable[(Head(src) \div 16) + 1], hextable[(Head(src) % 16) + 1] >>
         \o EncodeToString(Tail(src))

\* NewClusterSecret: hex of randomKey(32), or ("", err).
NewClusterSecret(rnd) ==
    LET k == randomKey(32, rnd)
    IN  IF k.err # Nil
        THEN [val |-> << >>, err |-> k.err, rnd |-> k.rnd]
        ELSE [val |-> EncodeToString(k.buf.bytes), err |-> Nil, rnd |-> k.rnd]

swarmPrefix == <<"/", "k", "e", "y", "/", "s", "w", "a", "r", "m", "/", "p", "s", "k", "/", "1", ".", "0", ".", "0">>

multiBase == <<"/", "b", "a", "s", "e", "1", "6", "/">>

SwarmKeyTextTrailingNewline(prefix, base, key) ==
    prefix \o <<"\n">> \o base \o <<"\n">> \o key \o <<"\n">>

\* fmt.Sprintf("%s\n%s\n%s", swarmPrefix, multiBase, key)
SwarmKeyText(prefix, base, key) == prefix \o <<"\n">> \o base \o <<"\n">> \o key

NewSwarmKey(rnd) ==
    LET k == randomKey(32, rnd)
    IN  IF k.err # Nil
        THEN [val |-> << >>, err |-> k.err, rnd |-> k.rnd]
        ELSE [val |-> SwarmKeyText(swarmPrefix, multiBase, EncodeToString(k.buf.bytes)),
              err |-> Nil, rnd |-> k.rnd]

\* ---- keys (go-libp2p core/crypto and core/peer) ----
KeySeeds == 0..MaxKeySeed

KeyGenErrors == { <<"key generation failed">> }

IDErrors == { <<"cannot derive peer id">> }

MarshalErrors == { <<"cannot marshal key">> }

\* How the key library behaves during one call: the key pair GenerateKeyPair
\* draws (seed) and the error, if any, of each library call.
KeyEnvs ==
    [ seed : KeySeeds, genErr : {Nil} \cup KeyGenErrors,
      idErr : {Nil} \cup IDErrors, marshalErr : {Nil} \cup MarshalErrors ]

NilKey == [type |-> "nil", data |-> << >>]

\* An Ed25519 private key of go-libp2p: 64 bytes, the last 32 the public key.
PrivKey(seed) == [type |-> "Ed25519", data |-> [i \in 1..64 |-> (seed + 7 * i) % 256]]

GetPublic(priv) == [type |-> priv.type, data |-> SubSeq(priv.data, 33, 64)]

\* The protobuf form of a key: field 1 the key type (Ed25519 = 1), field 2 the data.
MarshalKey(key) == <<8, 1, 18, Len(key.data)>> \o key.data

\* peer.IDFromPublicKey: for a short key the identity multihash of its protobuf form.
IDFromPublicKey(pub) == <<0, Len(MarshalKey(pub))>> \o MarshalKey(pub)

\* NewKey: GenerateKeyPair, then IDFromPublicKey; (nil, "", err) if either fails.
NewKey(kenv) ==
    IF kenv.genErr # Nil
    THEN [priv |-> NilKey, peerid |-> << >>, err |-> kenv.genErr]
    ELSE IF kenv.idErr # Nil
    THEN [priv |-> NilKey, peerid |-> << >>, err |-> kenv.idErr]
    ELSE [priv |-> PrivKey(kenv.seed),
          peerid |-> IDFromPublicKey(GetPublic(PrivKey(kenv.seed))),
          err |-> Nil]

\* fmt.Errorf(ctx + ": %w", err)
Errorf(ctx, err) == <<ctx>> \o err

\* encoding/base64: the standard alphabet, '=' padding.
encodeStd == 
    <<"A", "B", "C", "D", "E", "F", "G", "H", "I", "J", "K", "L", "M", "N", "O",
    "P", "Q", "R", "S", "T", "U", "V", "W", "X", "Y", "Z", "a", "b", "c", "d", "e",
    "f", "g", "h", "i", "j", "k", "l", "m", "n", "o", "p", "q", "r", "s", "t", "u",
    "v", "w", "x", "y", "z", "0", "1", "2", "3", "4", "5", "6", "7", "8", "9", "+",
    "/">>

B64(n, k) == encodeStd[((n \div (64 ^ k)) % 64) + 1]

\* base64.StdEncoding.EncodeToString
RECURSIVE StdEncodeToString(_)
StdEncodeToString(src) ==
    IF src = << >> THEN << >>
    ELSE IF Len(src) = 1
    THEN LET n == src[1] * 65536 IN << B64(n, 3), B64(n, 2), "=", "=" >>
    ELSE IF Len(src) = 2
    THEN LET n == src[1] * 65536 + src[2] * 256 IN << B64(n, 3), B64(n, 2), B64(n, 1), "=" >>
    ELSE LET n == src[1] * 65536 + src[2] * 256 + src[3]
         IN  << B64(n, 3), B64(n, 2), B64(n, 1), B64(n, 0) >>
             \o StdEncodeToString(SubSeq(src, 4, Len(src)))

GenerateIdentityBareReturn(kenv) ==
    LET k == NewKey(kenv)
    IN  IF k.err # Nil
        THEN [peerid |-> << >>, privStr |-> << >>,
              err |-> Errorf("cannot generate new key", k.err)]
        ELSE IF kenv.marshalErr # Nil
        THEN [peerid |-> k.peerid, privStr |-> << >>,
              err |-> Errorf("cannot get bytes from private key", kenv.marshalErr)]
        ELSE [peerid |-> k.peerid,
              privStr |-> StdEncodeToString(MarshalKey(k.priv)),
              err |-> Nil]

\* GenerateIdentity: NewKey, ci.MarshalPrivateKey, base64; each failure is
\* wrapped and returned with an empty peer ID and string.
GenerateIdentity(kenv) ==
    LET k == NewKey(kenv)
    IN  IF k.err # Nil
        THEN [peerid |-> << >>, privStr |-> << >>,
              err |-> Errorf("cannot generate new key", k.err)]
        ELSE IF kenv.marshalErr # Nil
        THEN [peerid |-> << >>, privStr |-> << >>,
              err |-> Errorf("cannot get bytes from private key", kenv.marshalErr)]
        ELSE [peerid |-> k.peerid,
              privStr |-> StdEncodeToString(MarshalKey(k.priv)),
              err |-> Nil]

\* Lengths randomKey is called with: small ones, and the 32 its callers pass.
KeyLens == (1..MaxKeyLen) \cup {32}

CallRandomKey ==
    /\ op = "none"
    /\ \E len \in KeyLens, rnd \in EntropyStreams :
         LET r == randomKey(len, rnd) IN
           /\ op' = "randomKey"
           /\ arg' = len
           /\ env' = rnd
           /\ entropy' = r.rnd
           /\ ret' = [buf |-> r.buf, err |-> r.err]
    /\ UNCHANGED <<syncVars, sizerVars>>

CallNewClusterSecret ==
    /\ op = "none"
    /\ \E rnd \in EntropyStreams :
         LET r == NewClusterSecret(rnd) IN
           /\ op' = "NewClusterSecret"
           /\ arg' = 0
           /\ env' = rnd
           /\ entropy' = r.rnd
           /\ ret' = [val |-> r.val, err |-> r.err]
    /\ UNCHANGED <<syncVars, sizerVars>>

CallNewSwarmKey ==
    /\ op = "none"
    /\ \E rnd \in EntropyStreams :
         LET r == NewSwarmKey(rnd) IN
           /\ op' = "NewSwarmKey"
           /\ arg' = 0
           /\ env' = rnd
           /\ entropy' = r.rnd
           /\ ret' = [val |-> r.val, err |-> r.err]
    /\ UNCHANGED <<syncVars, sizerVars>>

CallNewKey ==
    /\ op = "none"
    /\ \E kenv \in KeyEnvs :
         /\ op' = "NewKey"
         /\ arg' = 0
         /\ env' = kenv
         /\ entropy' = << >>
         /\ ret' = NewKey(kenv)
    /\ UNCHANGED <<syncVars, sizerVars>>

CallGenerateIdentity ==
    /\ op = "none"
    /\ \E kenv \in KeyEnvs :
         /\ op' = "GenerateIdentity"
         /\ arg' = 0
         /\ env' = kenv
         /\ entropy' = << >>
         /\ ret' = GenerateIdentity(kenv)
    /\ UNCHANGED <<syncVars, sizerVars>>

\* The caller takes the result away; the provisioner keeps nothing of it.
Discard ==
    /\ op # "none"
    /\ op' = "none"
    /\ arg' = 0
    /\ env' = << >>
    /\ entropy' = << >>
    /\ ret' = << >>
    /\ UNCHANGED <<syncVars, sizerVars>>

IdentInit == SyncIdle /\ SizerIdle /\ IdentIdle

IdentNext ==
    \/ CallRandomKey
    \/ CallNewClusterSecret
    \/ CallNewSwarmKey
    \/ CallNewKey
    \/ CallGenerateIdentity
    \/ Discard

IdentSpec == IdentInit /\ [][IdentNext]_vars

\* ------------------------------------------------------------- properties
Count(seq, x) == Cardinality({ i \in DOMAIN seq : seq[i] = x })

Range(seq) == { seq[i] : i \in DOMAIN seq }

Failed(o) == backend[o].err # Nil

\* C1: the value CreateOrPatchTrackedObjects returns is true exactly when
\* CreateOrPatch returned an error for at least one object of the batch; while
\* the loop runs the flag is true exactly when an object applied so far failed
\* (a later success does not lower it), and the empty batch returns false.
RequeueIffSomeFailed ==
    /\ pc \in {"loop", "done"} => (requeue <=> \E i \in DOMAIN calls : Failed(calls[i]))
    /\ pc = "done" => (requeue <=> \E o \in trackedObjects : Failed(o))
    /\ (pc = "done" /\ trackedObjects = {}) => requeue = FALSE

\* A call has returned true after a failure was followed by a success.
RequeueKeptAfterLaterSuccess ==
    /\ pc = "done"
    /\ requeue = TRUE
    /\ Len(calls) >= 2
    /\ Failed(calls[1])
    /\ ~Failed(calls[2])

\* C2: within one call CreateOrPatch is invoked at most once per object and
\* never for an object outside the batch, and when the call returns it has been
\* invoked exactly once for every tracked object, failures or not (inside the
\* loop every tracked object is either applied or still to come); the empty
\* batch makes no backend call.
ExactlyOncePerObject ==
    /\ \A o \in Objects :
         /\ Count(calls, o) <= 1
         /\ o \notin trackedObjects => Count(calls, o) = 0
    /\ pc = "loop" => Len(calls) + Cardinality(remaining) = Cardinality(trackedObjects)
    /\ pc = "done" => \A o \in trackedObjects : Count(calls, o) = 1
    /\ (pc = "done" /\ trackedObjects = {}) => calls = << >>

\* A call has returned after applying three objects, the first of which failed.
AllAppliedDespiteFirstFailure ==
    /\ pc = "done"
    /\ Len(calls) >= 3
    /\ Failed(calls[1])

\* C3 as stated: two calls on the same tracked objects with the same backend
\* behaviour issue their CreateOrPatch calls and their log records in the same
\* object order.
SameOrderAcrossCalls ==
    (pc = "done" /\ prev.valid) => (calls = prev.calls /\ logs = prev.logs)

\* C3 amended: two calls on the same tracked objects with the same backend
\* behaviour apply the same objects, once each, emit the same log records up to
\* their order, and return the same value.
SameObjectsAcrossCalls ==
    (pc = "done" /\ prev.valid) =>
        /\ Range(calls) = Range(prev.calls)
        /\ Len(calls) = Len(prev.calls)
        /\ \A r \in Range(logs) \cup Range(prev.logs) : Count(logs, r) = Count(prev.logs, r)
        /\ requeue = prev.requeue

\* Two completed calls on one batch, with a failure in it, took different orders.
TwoCallsInDifferentOrder ==
    /\ pc = "done"
    /\ prev.valid
    /\ calls # prev.calls
    /\ \E o \in trackedObjects : Failed(o)
    /\ \E o \in trackedObjects : ~Failed(o)

\* C4: every CreateOrPatch call is followed by exactly one log record, for that
\* object, an error record if the call returned an error and an info record if
\* not; at return the info records number the succeeded objects and the error
\* records the failed ones.
OneLogRecordPerObject ==
    /\ Len(logs) = Len(calls)
    /\ \A i \in DOMAIN logs :
         /\ logs[i].objname = calls[i]
         /\ logs[i].level = (IF Failed(calls[i]) THEN "error" ELSE "info")
         /\ logs[i].result = backend[calls[i]].result
    /\ pc = "done" =>
         /\ Cardinality({ i \in DOMAIN logs : logs[i].level = "info" })
              = Cardinality({ o \in trackedObjects : ~Failed(o) })
         /\ Cardinality({ i \in DOMAIN logs : logs[i].level = "error" })
              = Cardinality({ o \in trackedObjects : Failed(o) })

\* A call on a batch of one succeeding and one failing object has returned.
OneSuccessOneFailureLogged ==
    /\ pc = "done"
    /\ Cardinality(trackedObjects) = 2
    /\ Cardinality({ i \in DOMAIN logs : logs[i].level = "info" }) = 1
    /\ Cardinality({ i \in DOMAIN logs : logs[i].level = "error" }) = 1

MemRequest(c) == c.out.Requests.memory

MemLimit(c) == c.out.Limits.memory

CPURequest(c) == c.out.Requests.cpu

CPULimit(c) == c.out.Limits.cpu

SizerMonotonic ==
    \A i, j \in DOMAIN sized :
        BytesLess(sized[i].in, sized[j].in) =>
            /\ CPURequest(sized[i]).value <= CPURequest(sized[j]).value
            /\ CPULimit(sized[i]).value <= CPULimit(sized[j]).value
            /\ MemRequest(sized[i]).value <= MemRequest(sized[j]).value
            /\ MemLimit(sized[i]).value <= MemLimit(sized[j]).value
            /\ CPURequest(sized[i]).scale = CPURequest(sized[j]).scale
            /\ CPULimit(sized[i]).scale = CPULimit(sized[j]).scale
            /\ MemRequest(sized[i]).scale = MemRequest(sized[j]).scale
            /\ MemLimit(sized[i]).scale = MemLimit(sized[j]).scale

\* The last byte below two tebibytes and the first byte of two tebibytes, the
\* sizes on either side of the memory clamp, have both been sized.
SizedAcrossClamp ==
    /\ Len(sized) = 2
    /\ sized[1].in = Bytes(2 * 1048576 - 1, 1048576 - 1)
    /\ sized[2].in = Bytes(2 * 1048576, 0)
    /\ MemRequest(sized[1]).value = 1
    /\ MemRequest(sized[2]).value = 2

\* C7: the memory request returned is at least 2 gigabytes for every storage size.
MemoryFloorTwoG ==
    \A i \in DOMAIN sized :
        /\ MemRequest(sized[i]).scale = 9
        /\ MemRequest(sized[i]).value >= 2

KeyStepFailed == env.genErr # Nil \/ env.idErr # Nil

KeyStepError == IF env.genErr # Nil THEN env.genErr ELSE env.idErr

\* GenerateIdentity's results when the step named ctxMarshal is the context it
\* gives a serialization failure.
IdentityWraps(ctxMarshal) ==
    op = "GenerateIdentity" =>
        /\ KeyStepFailed =>
             /\ ret.err # Nil
             /\ Head(ret.err) = "cannot generate new key"
             /\ Tail(ret.err) = KeyStepError
             /\ ret.peerid = << >>
             /\ ret.privStr = << >>
        /\ (~KeyStepFailed /\ env.marshalErr # Nil) =>
             /\ ret.err # Nil
             /\ Head(ret.err) = ctxMarshal
             /\ Tail(ret.err) = env.marshalErr
             /\ ret.peerid = << >>
             /\ ret.privStr = << >>
        /\ (~KeyStepFailed /\ env.marshalErr = Nil) =>
             /\ ret.err = Nil
             /\ ret.peerid # << >>
             /\ ret.privStr # << >>

\* C8 as stated: a NewKey failure is wrapped with "cannot generate new key", a
\* serialization failure with "cannot serialize private key"; either way the
\* peer ID and the string are empty, and on success the error is nil and both
\* are non-empty.
GenerateIdentityWrapsAsStated == IdentityWraps("cannot serialize private key")

\* C8 amended: as stated, the context of a serialization failure being
\* "cannot get bytes from private key".
GenerateIdentityWraps == IdentityWraps("cannot get bytes from private key")

\* GenerateIdentity has returned after the key was made and its serialization failed.
SerializationFailed ==
    /\ op = "GenerateIdentity"
    /\ ~KeyStepFailed
    /\ env.marshalErr # Nil
    /\ ret.err # Nil

RandomOps == {"randomKey", "NewClusterSecret", "NewSwarmKey"}

\* C9: randomKey, NewClusterSecret and NewSwarmKey read the random source once;
\* if that read fails they return its error unchanged with a nil buffer or an
\* empty string, and if it succeeds they return a nil error, randomKey(n) with
\* exactly n bytes.
RandomFailurePropagates ==
    op \in RandomOps =>
        /\ entropy = Tail(env)
        /\ env[1].err # Nil =>
             /\ ret.err = env[1].err
             /\ op = "randomKey" => ret.buf = NilBuf
             /\ op # "randomKey" => ret.val = << >>
        /\ env[1].err = Nil =>
             /\ ret.err = Nil
             /\ op = "randomKey" => (~ret.buf.nil /\ Len(ret.buf.bytes) = arg)
             /\ op # "randomKey" => ret.val # << >>

\* NewSwarmKey has returned an error from a source whose next read would have
\* succeeded.
SwarmKeyFailedWithoutRetry ==
    /\ op = "NewSwarmKey"
    /\ env[1].err # Nil
    /\ env[2].err = Nil
    /\ ret.err # Nil

HexValue(c) ==
    CASE c = "0" -> 0  [] c = "1" -> 1  [] c = "2" -> 2  [] c = "3" -> 3
      [] c = "4" -> 4  [] c = "5" -> 5  [] c = "6" -> 6  [] c = "7" -> 7
      [] c = "8" -> 8  [] c = "9" -> 9  [] c = "a" -> 10 [] c = "b" -> 11
      [] c = "c" -> 12 [] c = "d" -> 13 [] c = "e" -> 14 [] c = "f" -> 15
      [] OTHER -> -1

\* C10: a successful NewSwarmKey result is "/key/swarm/psk/1.0.0", a newline,
\* "/base16/", a newline and 64 lowercase hexadecimal characters that spell the
\* 32 bytes read from the random source, with nothing after them.
SwarmKeyMatchesTemplate ==
    (op = "NewSwarmKey" /\ ret.err = Nil) =>
        /\ Len(ret.val) = 94
        /\ SubSeq(ret.val, 1, 20) = <<"/", "k", "e", "y", "/", "s", "w", "a", "r", "m", "/", "p", "s", "k", "/", "1", ".", "0", ".", "0">>
        /\ ret.val[21] = "\n"
        /\ SubSeq(ret.val, 22, 29) = <<"/", "b", "a", "s", "e", "1", "6", "/">>
        /\ ret.val[30] = "\n"
        /\ \A i \in 31..94 : HexValue(ret.val[i]) >= 0
        /\ \A i \in 1..32 :
             16 * HexValue(ret.val[29 + 2 * i]) + HexValue(ret.val[30 + 2 * i])
               = Fill(env[1].pattern, 32)[i]

\* NewSwarmKey has returned a key whose bytes need a letter digit and a leading zero.
SwarmKeyGenerated ==
    /\ op = "NewSwarmKey"
    /\ ret.err = Nil
    /\ env[1].pattern[1] = 171
    /\ env[1].pattern[2] = 10

====
